---- MODULE Spec2Model ----
(***************************************************************************)
(* Model of the mystry-message server glue: the memoized database          *)
(* connection helper (lib/dbConnect), the credentials login configuration  *)
(* (authOptions), the accept-messages route handlers (POST / GET) and the   *)
(* route-protection middleware.                                            *)
(*                                                                         *)
(* JavaScript values: `undefined` and `null` are the number 0 where an id   *)
(* or a readyState is expected (ids and readyStates of live objects are     *)
(* positive); an object is a function from its own property names, and a    *)
(* property that is not in the DOMAIN reads as undefined.                   *)
(***************************************************************************)
EXTENDS Integers, Sequences, FiniteSets, TLC

\* ------------------------------------------------------------------ bounds
NumHandlers == 2      \* request handlers that may be in flight at once
NumUsers == 2         \* records in the user collection
MaxHops == 3          \* redirects a browser follows before giving up

\* --------------------------------------------------------------- constants
Connected == 1        \* mongoose readyState of an open connection

undefined == 0

Procs == 1..NumHandlers
UserIds == 1..NumUsers

VARIABLES
    connection,    \* lib/dbConnect: the module-level ConnectionObject
    connectCalls,  \* number of mongoose.connect invocations so far
    exited,        \* process.exit(1) was called
    store,         \* the users collection: id -> document
    issued,        \* session tokens (JWT payloads) handed to browsers
    op,            \* per handler: which entry point is running
    pc,            \* per handler: position in the entry point
    req,           \* per handler: the inputs it has read so far
    local,         \* per handler: userId / acceptMessages / user locals
    res,           \* per handler: what the entry point produced
    mw             \* the browser navigation seen by the middleware

vars == <<connection, connectCalls, exited, store, issued, op, pc, req, local, res, mw>>
appVars == <<connection, connectCalls, exited, store, issued, op, pc, req, local, res>>

\* ------------------------------------------------------------ the database
\* Identifiers are numbers: user u has email 2u and username 2u+1, so that
\* emails and usernames are unique and an email is never a username; 1 is
\* the identifier of nobody.
Email(u) == 2 * u
Username(u) == 2 * u + 1
Identifiers == 1..(2 * NumUsers + 1)

\* bcrypt: a hash carries its salt and the digest of the password under that
\* salt; the digest is a one-way, collision-free term.  compare recomputes
\* the digest of the submitted password under the hash's salt.
Digest(salt, pw) == <<"$2a$", salt, pw>>
bcryptHash(pw, salt) == [salt |-> salt, digest |-> Digest(salt, pw)]
bcryptCompare(pw, hash) == Digest(hash.salt, pw) = hash.digest

\* The plaintext passwords that are submitted, and the one each account
\* was registered with.
Passwords == {"correct horse", "hunter2"}
PasswordOf(u) == IF u % 2 = 1 THEN "correct horse" ELSE "hunter2"

\* The collection holds accounts that completed the e-mail verification and
\* accounts that did not: the odd ids are the verified ones.
VerifiedAtStart(u) == u % 2 = 1

UserDoc(u, verified, accepting) ==
    [_id |-> u, email |-> Email(u), username |-> Username(u),
     password |-> bcryptHash(PasswordOf(u), u),
     isVerified |-> verified, isAcceptingMessage |-> accepting]

\* UserModel.findOne({$or: [{email: identifier}, {username: identifier}]})
findOne(st, identifier) ==
    LET hits == {u \in DOMAIN st : st[u].email = identifier \/ st[u].username = identifier}
    IN  IF hits = {} THEN undefined ELSE CHOOSE u \in hits : \A v \in hits : u <= v

\* UserModel.findById(id): the id of the found document, or null
findById(st, id) == IF id \in DOMAIN st THEN id ELSE undefined

\* An update whose filter drops an undefined id, as findOneAndUpdate({_id:
\* undefined}) would with undefined keys omitted: the first document matches.
findByIdAndUpdate_emptyFilter(st, id, v) ==
    IF id \in DOMAIN st THEN [st EXCEPT ![id].isAcceptingMessage = v]
    ELSE LET first == CHOOSE u \in DOMAIN st : \A w \in DOMAIN st : u <= w
         IN  [st EXCEPT ![first].isAcceptingMessage = v]

\* UserModel.findByIdAndUpdate(id, {isAcceptingMessage: v}, {new: true})
findByIdAndUpdate(st, id, v) ==
    IF id \in DOMAIN st THEN [st EXCEPT ![id].isAcceptingMessage = v] ELSE st

\* ------------------------------------------------- JavaScript object reads
Get(obj, field) == IF field \in DOMAIN obj THEN obj[field] ELSE undefined

\* ---------------------------------------------------------- authOptions
\* authorize without the isVerified check.
authorize_noVerifiedCheck(st, identifier, password) ==
    LET user == findOne(st, identifier)
    IN  IF user = undefined
            THEN [user |-> undefined, error |-> "User not found with this email/username"]
        ELSE IF bcryptCompare(password, st[user].password)
            THEN [user |-> user, error |-> ""]
        ELSE [user |-> undefined, error |-> "Incorrect Password"]

\* CredentialsProvider.authorize once the findOne has answered: the record
\* (its id) that is returned, or the Error that is thrown.
authorize(st, identifier, password) ==
    LET user == findOne(st, identifier)
    IN  IF user = undefined
            THEN [user |-> undefined, error |-> "User not found with this email/username"]
        ELSE IF ~st[user].isVerified
            THEN [user |-> undefined, error |-> "Please verify your account first"]
        ELSE IF bcryptCompare(password, st[user].password)
            THEN [user |-> user, error |-> ""]
        ELSE [user |-> undefined, error |-> "Incorrect Password"]

\* The token the framework builds from the record authorize returned, before
\* the jwt callback sees it: the standard claims only.
defaultToken(st, user) == [sub |-> user, email |-> st[user].email]

\* authOptions.callbacks.jwt: authOptions has no `callbacks` key, so the
\* framework's own callback runs, which returns the token as it is.
callbacks_jwt(token, st, user) == token

\* The session the framework builds from a token before the session callback
\* sees it: user {name, email, image} from the standard claims.
defaultSession(token) == [user |-> [email |-> token.email]]

\* authOptions.callbacks.session: absent as well; the session is returned
\* as the framework built it.
callbacks_session(sess, token) == sess

\* getServerSession(authOptions) for a request with the given cookie jar:
\* null without a session token, else the session decoded from the token.
\* A session object without `user` is allowed by the Session type
\* (user?: ...); the "nouser" jar stands for a request that yields one.
null == [isNull |-> TRUE]
getServerSession(cookie) ==
    IF cookie.kind = "none" THEN null
    ELSE IF cookie.kind = "nouser" THEN [expires |-> 1]
    ELSE callbacks_session(defaultSession(cookie.token), cookie.token)

\* !session || !session.user
NotAuthenticated(sess) == "isNull" \in DOMAIN sess \/ "user" \notin DOMAIN sess

\* ------------------------------------------------------------- responses
Json(status, success, message) ==
    [kind |-> "json", status |-> status, success |-> success, message |-> message]
Thrown(message) == [kind |-> "throw", message |-> message]
NoRes == [kind |-> "none"]

\* authorize, lines 47-49: catch (err) { throw new Error(err) }; the new
\* message is String(err), the caught error's name and message.
rethrow(message) == Thrown("Error: " \o message)

\* req.json(): the request bodies that are sent, and what parsing gives
Bodies == {"{acceptMessages:true}", "{acceptMessages:false}", "not json"}
CanParse(body) == body # "not json"
acceptMessagesOf(body) == body = "{acceptMessages:true}"

NoCookie == [kind |-> "none"]
NoReq == [cookie |-> NoCookie, body |-> "", identifier |-> 0, password |-> ""]
NoLocal == [userId |-> undefined, acceptMessages |-> FALSE, user |-> undefined, dbError |-> FALSE]

\* Cookie jars a browser can present: none, or a token it was issued.
Cookies == {NoCookie, [kind |-> "nouser"]} \cup {[kind |-> "jwt", token |-> t] : t \in issued}

\* ------------------------------------------------------------------ Init
InitApp ==
    /\ connection = [isConnected |-> undefined]
    /\ connectCalls = 0
    /\ exited = FALSE
    /\ store = [u \in UserIds |-> UserDoc(u, VerifiedAtStart(u), TRUE)]
    /\ issued = {}
    /\ op = [p \in Procs |-> "idle"]
    /\ pc = [p \in Procs |-> "idle"]
    /\ req = [p \in Procs |-> NoReq]
    /\ local = [p \in Procs |-> NoLocal]
    /\ res = [p \in Procs |-> NoRes]

\* ------------------------------------------------------------ middleware
\* Path names are sequences of characters.
startsWith(s, prefix) ==
    Len(s) >= Len(prefix) /\ SubSeq(s, 1, Len(prefix)) = prefix

Slash == <<"/">>
SignInPath == <<"/", "s", "i", "g", "n", "-", "i", "n">>
SignUpPath == <<"/", "s", "i", "g", "n", "-", "u", "p">>
VerifyPath == <<"/", "v", "e", "r", "i", "f", "y">>
DashboardPath == <<"/", "d", "a", "s", "h", "b", "o", "a", "r", "d">>
ProfilePath == <<"/", "u">>
ApiPath == <<"/", "a", "p", "i">>

\* The path names that are requested: each base, alone, with one or two more
\* segments, or with a longer last segment.
Bases == {<<>>, SignInPath, SignUpPath, VerifyPath, DashboardPath, ProfilePath, ApiPath}
Suffixes == {<<>>, <<"/">>, <<"/", "a">>, <<"/", "b">>, <<"/", "a", "/", "b">>, <<"x">>}
Paths == {Slash} \cup {b \o x : b \in Bases \ {<<>>}, x \in Suffixes}
                 \cup {x \in Suffixes : x # <<>> /\ Head(x) = "/"}

\* `path` is `base` or lies below it: what a matcher entry base/:path*
\* accepts, and what "base or any path below it" means.
AtOrBelow(path, base) == path = base \/ startsWith(path, base \o Slash)

\* config.matcher: the requests the framework hands to the middleware
config_matcher(path) ==
    \/ path = SignInPath
    \/ path = SignUpPath
    \/ path = Slash
    \/ AtOrBelow(path, DashboardPath)
    \/ AtOrBelow(path, VerifyPath)

RedirectTo(path) == [type |-> "redirect", to |-> path]
NextResponse_next == [type |-> "next", to |-> <<>>]

\* middleware whose second test compares the path name with '/dashboard'
\* instead of testing the prefix.
middleware_exactDashboard(token, pathname) ==
    IF token /\ (\/ startsWith(pathname, SignInPath)
                 \/ startsWith(pathname, SignUpPath)
                 \/ startsWith(pathname, VerifyPath)
                 \/ startsWith(pathname, Slash))
        THEN RedirectTo(DashboardPath)
    ELSE IF ~token /\ pathname = DashboardPath
        THEN RedirectTo(SignInPath)
    ELSE NextResponse_next

\* middleware(request): token is whether getToken found a session token
middleware(token, pathname) ==
    IF token /\ (\/ startsWith(pathname, SignInPath)
                 \/ startsWith(pathname, SignUpPath)
                 \/ startsWith(pathname, VerifyPath)
                 \/ startsWith(pathname, Slash))
        THEN RedirectTo(DashboardPath)
    ELSE IF ~token /\ startsWith(pathname, DashboardPath)
        THEN RedirectTo(SignInPath)
    ELSE NextResponse_next

\* What the framework answers for a request: the middleware's response when
\* the matcher selects the path, else the page itself.
Serve(token, path) ==
    [ran |-> config_matcher(path),
     res |-> IF config_matcher(path) THEN middleware(token, path) ELSE NextResponse_next]

NoNav == [token |-> FALSE, origin |-> <<>>, path |-> <<>>, hops |-> 0, ran |-> FALSE,
          res |-> [type |-> "none", to |-> <<>>]]

\* The browser requests a page, with or without a session token.
Navigate ==
    \E token \in BOOLEAN, path \in Paths :
        /\ mw' = [token |-> token, origin |-> path, path |-> path, hops |-> 0,
                  ran |-> Serve(token, path).ran, res |-> Serve(token, path).res]
        /\ UNCHANGED appVars

\* The browser follows a redirect it was answered with.
FollowRedirect ==
    /\ mw.res.type = "redirect"
    /\ mw.hops < MaxHops
    /\ mw' = [mw EXCEPT !.path = mw.res.to, !.hops = mw.hops + 1,
                        !.ran = Serve(mw.token, mw.res.to).ran,
                        !.res = Serve(mw.token, mw.res.to).res]
    /\ UNCHANGED appVars

Init == InitApp /\ mw = NoNav

NextMw == Navigate \/ FollowRedirect

SpecMw == Init /\ [][NextMw]_vars

\* ---------------------------------------------------------------- actions
\* The framework dispatches a request to POST, GET or (sign-in) authorize;
\* each of them starts with `await dbConnect()`.
Request(p) ==
    /\ ~exited
    /\ pc[p] = "idle"
    /\ \E o \in {"POST", "GET", "signIn"} : op' = [op EXCEPT ![p] = o]
    /\ pc' = [pc EXCEPT ![p] = "dbConnect"]
    /\ UNCHANGED <<connection, connectCalls, exited, store, issued, req, local, res, mw>>

\* dbConnect without its isConnected guard: every call invokes mongoose.connect.
dbConnect_unguarded(p) ==
    /\ ~exited
    /\ pc[p] = "dbConnect"
    /\ connectCalls' = connectCalls + 1
    /\ pc' = [pc EXCEPT ![p] = "awaitConnect"]
    /\ UNCHANGED <<connection, exited, store, issued, op, req, local, res, mw>>

\* dbConnect up to its await: return when connection.isConnected is truthy,
\* else invoke mongoose.connect and suspend.
dbConnect(p) ==
    /\ ~exited
    /\ pc[p] = "dbConnect"
    /\ IF connection.isConnected # undefined
          THEN /\ pc' = [pc EXCEPT ![p] = "connected"]
               /\ UNCHANGED connectCalls
          ELSE /\ connectCalls' = connectCalls + 1
               /\ pc' = [pc EXCEPT ![p] = "awaitConnect"]
    /\ UNCHANGED <<connection, exited, store, issued, op, req, local, res, mw>>

\* mongoose.connect resolved: record readyState and return
dbConnectResolved(p) ==
    /\ ~exited
    /\ pc[p] = "awaitConnect"
    /\ connection' = [connection EXCEPT !.isConnected = Connected]
    /\ pc' = [pc EXCEPT ![p] = "connected"]
    /\ UNCHANGED <<connectCalls, exited, store, issued, op, req, local, res, mw>>

\* dbConnect whose catch block only logs: the caller resumes after the await.
dbConnectRejected_noExit(p) ==
    /\ ~exited
    /\ pc[p] = "awaitConnect"
    /\ pc' = [pc EXCEPT ![p] = "connected"]
    /\ UNCHANGED <<connection, connectCalls, exited, store, issued, op, req, local, res, mw>>

\* mongoose.connect rejected: the catch block calls process.exit(1)
dbConnectRejected(p) ==
    /\ ~exited
    /\ pc[p] = "awaitConnect"
    /\ exited' = TRUE
    /\ UNCHANGED <<connection, connectCalls, store, issued, op, pc, req, local, res, mw>>

\* POST that parses the body before it looks at the session.
POST_early_parseFirst(session, body) ==
    IF ~CanParse(body) THEN Thrown("SyntaxError")
    ELSE IF NotAuthenticated(session) THEN Json(401, FALSE, "Not Authenticated")
    ELSE NoRes

\* POST, lines 13-24, what ends the handler before its try block: the 401 for
\* a request that is not authenticated, or the exception of req.json().
POST_early(session, body) ==
    IF NotAuthenticated(session) THEN Json(401, FALSE, "Not Authenticated")
    ELSE IF ~CanParse(body) THEN Thrown("SyntaxError")
    ELSE NoRes

\* GET, lines 65-74
GET_early(session) ==
    IF NotAuthenticated(session) THEN Json(401, FALSE, "Not Authenticated") ELSE NoRes

\* POST, lines 10-24: read the session, answer 401 without one, else take
\* user._id and parse the body (outside the try block).
POST_session(p) ==
    /\ ~exited
    /\ op[p] = "POST" /\ pc[p] = "connected"
    /\ \E cookie \in Cookies, body \in Bodies :
         LET session == getServerSession(cookie) IN
         /\ req' = [req EXCEPT ![p] = [NoReq EXCEPT !.cookie = cookie, !.body = body]]
         /\ IF POST_early(session, body).kind # "none"
               THEN /\ res' = [res EXCEPT ![p] = POST_early(session, body)]
                    /\ pc' = [pc EXCEPT ![p] = "done"]
                    /\ UNCHANGED local
               ELSE /\ local' = [local EXCEPT ![p].userId = Get(session.user, "_id"),
                                              ![p].acceptMessages = acceptMessagesOf(body)]
                    /\ pc' = [pc EXCEPT ![p] = "update"]
                    /\ UNCHANGED res
    /\ UNCHANGED <<connection, connectCalls, exited, store, issued, op, mw>>

\* POST, lines 25-55: findByIdAndUpdate inside the try block
POST_update(p) ==
    /\ ~exited
    /\ op[p] = "POST" /\ pc[p] = "update"
    /\ \E dbError \in BOOLEAN :
         /\ local' = [local EXCEPT ![p].dbError = dbError]
         /\ IF dbError
               THEN /\ res' = [res EXCEPT ![p] =
                           Json(500, FALSE, "Failed to update user status to accept messages")]
                    /\ UNCHANGED store
               ELSE LET updated == findByIdAndUpdate(store, local[p].userId, local[p].acceptMessages)
                        updatedUser == findById(updated, local[p].userId)
                    IN  /\ store' = updated
                        /\ res' = [res EXCEPT ![p] =
                             IF updatedUser = undefined
                                THEN Json(401, FALSE, "Failed to update user status to accept messages")
                                ELSE Json(200, TRUE, "Updated user status to accept messages")
                                       @@ [updatedUser |-> updated[updatedUser]]]
    /\ pc' = [pc EXCEPT ![p] = "done"]
    /\ UNCHANGED <<connection, connectCalls, exited, issued, op, req, mw>>

\* GET, lines 62-76
GET_session(p) ==
    /\ ~exited
    /\ op[p] = "GET" /\ pc[p] = "connected"
    /\ \E cookie \in Cookies :
         LET session == getServerSession(cookie) IN
         /\ req' = [req EXCEPT ![p] = [NoReq EXCEPT !.cookie = cookie]]
         /\ IF GET_early(session).kind # "none"
               THEN /\ res' = [res EXCEPT ![p] = GET_early(session)]
                    /\ pc' = [pc EXCEPT ![p] = "done"]
                    /\ UNCHANGED local
               ELSE /\ local' = [local EXCEPT ![p].userId = Get(session.user, "_id")]
                    /\ pc' = [pc EXCEPT ![p] = "find"]
                    /\ UNCHANGED res
    /\ UNCHANGED <<connection, connectCalls, exited, store, issued, op, mw>>

\* GET, lines 78-105: findById inside the try block
GET_find(p) ==
    /\ ~exited
    /\ op[p] = "GET" /\ pc[p] = "find"
    /\ \E dbError \in BOOLEAN :
         /\ local' = [local EXCEPT ![p].dbError = dbError]
         /\ res' = [res EXCEPT ![p] =
               IF dbError THEN Json(500, FALSE, "Failed to found the user")
               ELSE LET foundUser == findById(store, local[p].userId)
                    IN  IF foundUser = undefined
                           THEN Json(500, FALSE, "Failed to found the user")
                           ELSE [kind |-> "json", status |-> 200, success |-> TRUE,
                                 isAcceptingMessages |-> store[foundUser].isAcceptingMessage]]
    /\ pc' = [pc EXCEPT ![p] = "done"]
    /\ UNCHANGED <<connection, connectCalls, exited, store, issued, op, req, mw>>

\* authorize, lines 18-49: findOne, the three checks, and the rethrow
signIn_authorize(p) ==
    /\ ~exited
    /\ op[p] = "signIn" /\ pc[p] = "connected"
    /\ \/ \* findOne rejects, whatever the credentials: caught and rethrown
          /\ res' = [res EXCEPT ![p] = rethrow("MongoError")]
          /\ local' = [local EXCEPT ![p].dbError = TRUE]
          /\ pc' = [pc EXCEPT ![p] = "done"]
          /\ UNCHANGED req
       \/ \E identifier \in Identifiers, password \in Passwords :
            LET r == authorize(store, identifier, password) IN
            /\ req' = [req EXCEPT ![p] = [NoReq EXCEPT !.identifier = identifier,
                                                       !.password = password]]
            /\ IF r.user = undefined
                  THEN /\ res' = [res EXCEPT ![p] = rethrow(r.error)]
                       /\ pc' = [pc EXCEPT ![p] = "done"]
                       /\ UNCHANGED local
                  ELSE /\ local' = [local EXCEPT ![p].user = r.user]
                       /\ pc' = [pc EXCEPT ![p] = "callbacks"]
                       /\ UNCHANGED res
    /\ UNCHANGED <<connection, connectCalls, exited, store, issued, op, mw>>

\* The framework turns the authorized record into a session token (jwt
\* callback), sets it as a cookie, and serves the session built from it
\* (session callback).
signIn_callbacks(p) ==
    /\ ~exited
    /\ op[p] = "signIn" /\ pc[p] = "callbacks"
    /\ LET token == callbacks_jwt(defaultToken(store, local[p].user), store, local[p].user)
       IN  /\ issued' = issued \cup {token}
           /\ res' = [res EXCEPT ![p] =
                 [kind |-> "session",
                  session |-> callbacks_session(defaultSession(token), token)]]
    /\ pc' = [pc EXCEPT ![p] = "done"]
    /\ UNCHANGED <<connection, connectCalls, exited, store, op, req, local, mw>>

\* The response (or the exception) leaves the handler; the slot is free
\* for the next request.
Respond(p) ==
    /\ ~exited
    /\ pc[p] = "done"
    /\ op' = [op EXCEPT ![p] = "idle"]
    /\ pc' = [pc EXCEPT ![p] = "idle"]
    /\ req' = [req EXCEPT ![p] = NoReq]
    /\ local' = [local EXCEPT ![p] = NoLocal]
    /\ res' = [res EXCEPT ![p] = NoRes]
    /\ UNCHANGED <<connection, connectCalls, exited, store, issued, mw>>

Next ==
    \E p \in Procs :
        \/ Request(p)
        \/ dbConnect(p)
        \/ dbConnectResolved(p)
        \/ dbConnectRejected(p)
        \/ POST_session(p)
        \/ POST_update(p)
        \/ GET_session(p)
        \/ GET_find(p)
        \/ signIn_authorize(p)
        \/ signIn_callbacks(p)
        \/ Respond(p)

Spec == Init /\ [][Next]_vars

TypeOK ==
    /\ connectCalls \in 0..NumHandlers
    /\ connection.isConnected \in {undefined, Connected}
    /\ exited \in BOOLEAN
    /\ \A p \in Procs : op[p] \in {"idle", "POST", "GET", "signIn"}

\* ------------------------------------------------------------- properties
Done(p, o) == op[p] = o /\ pc[p] = "done"

\* A handler that is about to run a query: findByIdAndUpdate, findById, or
\* authorize's findOne.
Querying(p) ==
    \/ pc[p] = "update"
    \/ pc[p] = "find"
    \/ (op[p] = "signIn" /\ pc[p] = "connected")

\* C1: once a dbConnect call has succeeded (connection.isConnected is
\* recorded), no later step invokes mongoose.connect: the number of connect
\* invocations never changes again.
C1_NoConnectAfterSuccess ==
    [][connection.isConnected # undefined => connectCalls' = connectCalls]_vars

\* Every handler has returned from dbConnect and only one of the calls
\* invoked mongoose.connect: the others took the already-connected return.
C1_Witness ==
    /\ connection.isConnected = Connected
    /\ connectCalls = 1
    /\ \A p \in Procs : pc[p] = "connected"

\* C2: with concurrent callers mongoose.connect is invoked at most once.
C2_AtMostOneConnect == connectCalls <= 1

\* C3: an authenticated request to /dashboard or a path below it is let
\* through by the middleware (NextResponse.next, no redirect).
C3_AuthenticatedDashboardPasses ==
    (mw.ran /\ mw.token /\ AtOrBelow(mw.path, DashboardPath)) => mw.res.type = "next"

\* C4: a POST by an authenticated user with body acceptMessages = b answers
\* 200 and that user's stored isAcceptingMessage is b.
C4_PostSetsFlag ==
    \A p \in Procs :
        (Done(p, "POST") /\ req[p].cookie.kind = "jwt" /\ CanParse(req[p].body)
                         /\ ~local[p].dbError)
        => /\ res[p].status = 200
           /\ store[req[p].cookie.token.sub].isAcceptingMessage = acceptMessagesOf(req[p].body)

\* C5: after a successful credentials login the session carries the _id of
\* the record that authorize returned.
C5_SessionCarriesId ==
    \A p \in Procs :
        (Done(p, "signIn") /\ res[p].kind = "session")
        => /\ "_id" \in DOMAIN res[p].session.user
           /\ res[p].session.user._id = local[p].user

\* The records whose email or username is the identifier
Matching(identifier) ==
    {u \in UserIds : store[u].email = identifier \/ store[u].username = identifier}

\* C6: authorize returns the record exactly when a record with that email or
\* username exists, is verified and has the submitted password; otherwise it
\* throws, and the error is the one of the first check that fails
\* (existence, then verification, then password).
C6_AuthorizeDecides ==
    \A p \in Procs :
        (op[p] = "signIn" /\ pc[p] \in {"callbacks", "done"} /\ ~local[p].dbError)
        => LET m == Matching(req[p].identifier)
               good == {u \in m : store[u].isVerified /\ PasswordOf(u) = req[p].password}
           IN  /\ (local[p].user # undefined) <=> (good # {})
               /\ local[p].user # undefined => local[p].user \in good
               /\ pc[p] = "done" /\ local[p].user = undefined =>
                    /\ res[p].kind = "throw"
                    /\ res[p].message =
                         IF m = {} THEN "Error: User not found with this email/username"
                         ELSE IF \E u \in m : ~store[u].isVerified
                              THEN "Error: Please verify your account first"
                         ELSE "Error: Incorrect Password"

\* A login that was turned down for an unverified account although the
\* password was right, and one that succeeded by username.
C6_Witness ==
    /\ \E p \in Procs :
         /\ Done(p, "signIn") /\ res[p].kind = "throw"
         /\ \E u \in UserIds : /\ req[p].identifier = Email(u)
                               /\ ~store[u].isVerified
                               /\ req[p].password = PasswordOf(u)
    /\ \E p \in Procs :
         /\ Done(p, "signIn") /\ res[p].kind = "session"
         /\ req[p].identifier = Username(local[p].user)

\* C7: the middleware redirects as the route-protection table says: without
\* a session token /dashboard and the paths below it go to /sign-in; with
\* one, /sign-in, /sign-up, /verify/* and / go to /dashboard.
C7_RedirectTable ==
    /\ (~mw.token /\ AtOrBelow(mw.path, DashboardPath))
          => (mw.ran /\ mw.res = RedirectTo(SignInPath))
    /\ (mw.token /\ (\/ mw.path = SignInPath
                     \/ mw.path = SignUpPath
                     \/ mw.path = Slash
                     \/ AtOrBelow(mw.path, VerifyPath)))
          => (mw.ran /\ mw.res = RedirectTo(DashboardPath))

\* A request without a token to a page below /dashboard was redirected.
C7_Witness ==
    /\ ~mw.token
    /\ mw.path = DashboardPath \o <<"/", "a">>
    /\ mw.res = RedirectTo(SignInPath)

\* C8: a POST or GET without a session, or with a session without a user,
\* is answered 401, success false, "Not Authenticated", whatever the body.
C8_Unauthenticated401 ==
    \A p \in Procs :
        ((Done(p, "POST") \/ Done(p, "GET"))
            /\ NotAuthenticated(getServerSession(req[p].cookie)))
        => /\ res[p].kind = "json"
           /\ res[p].status = 401
           /\ res[p].success = FALSE
           /\ res[p].message = "Not Authenticated"

\* A POST with a user-less session and a body that is not JSON got the 401.
C8_Witness ==
    \E p \in Procs :
        /\ Done(p, "POST")
        /\ req[p].cookie.kind = "nouser"
        /\ req[p].body = "not json"
        /\ res[p].status = 401

\* C9: a failed connection attempt ends the process, and no handler runs a
\* find or an update unless the process is alive and connection.isConnected
\* is set.
C9_NoQueryAfterFailedConnect ==
    [][/\ exited => UNCHANGED vars
       /\ \A p \in Procs :
            (Querying(p) /\ pc'[p] # pc[p])
            => (~exited /\ connection.isConnected # undefined)]_vars

\* The only connection attempt failed: the process has exited with
\* isConnected unset while a caller was awaiting dbConnect.
C9_Witness ==
    /\ exited
    /\ connection.isConnected = undefined
    /\ \E p \in Procs : pc[p] = "awaitConnect"

\* C10: every POST and GET invocation ends with a response of status 200,
\* 401 or 500, success true exactly for 200; nothing is thrown.
C10_AlwaysResponds ==
    \A p \in Procs :
        (Done(p, "POST") \/ Done(p, "GET"))
        => /\ res[p].kind = "json"
           /\ res[p].status \in {200, 401, 500}
           /\ res[p].success <=> (res[p].status = 200)

\* C11: the only change ever made to the user store is to isAcceptingMessage
\* of the record of the requesting session's user, made by a POST that is
\* answered 200; a GET, and any request answered 401 or 500, changes no
\* record, and no other record or field is changed.
C11_OnlyOwnFlagChanges ==
    [][/\ DOMAIN store' = DOMAIN store
       /\ \A u \in UserIds :
            store'[u] # store[u] =>
              \E p \in Procs :
                /\ op[p] = "POST" /\ pc[p] = "update" /\ pc'[p] = "done"
                /\ req[p].cookie.kind = "jwt"
                /\ req[p].cookie.token.sub = u
                /\ local[p].userId = u
                /\ res'[p].status = 200
                /\ store'[u] = [store[u] EXCEPT !.isAcceptingMessage = local[p].acceptMessages]]_vars

\* A logged-in user's POST that asked to turn the flag off has run its
\* update and was answered 401, a GET was answered 500, and every record
\* is as it was at the start.
C11_Witness ==
    /\ \E p \in Procs :
         /\ Done(p, "POST") /\ req[p].cookie.kind = "jwt"
         /\ ~local[p].dbError /\ ~local[p].acceptMessages
         /\ res[p].kind = "json" /\ res[p].status = 401
    /\ \E p \in Procs : Done(p, "GET") /\ res[p].kind = "json" /\ res[p].status = 500
    /\ store = [u \in UserIds |-> UserDoc(u, VerifiedAtStart(u), TRUE)]

====
